---- MODULE Spec2Model ----
(***************************************************************************)
(* A model of NatVsTech (src/NatVsTech.py): the data conditioner, the      *)
(* boosting-stage selector, the hyperparameter searcher, the inference     *)
(* applier and the repeated-split feature eliminator.                      *)
(*                                                                         *)
(* Conventions.                                                            *)
(*  - A table (DataFrame) is a sequence of rows, a row a sequence of       *)
(*    cells, a cell either Missing (NaN) or Val(v).                        *)
(*  - A numpy array is a sequence; Python index i is position i + 1, read  *)
(*    with At(a, i).                                                       *)
(*  - A Python attribute or variable that may be unset holds None, and     *)
(*    Some(v) once set.                                                    *)
(*  - Probabilities are tenths on the grid 0..Scale; the two columns of    *)
(*    predict_proba sum to Scale.                                          *)
(*  - The classifier, the grid search, RFECV and the split generator are   *)
(*    library code: their outputs are nondeterministic choices from small  *)
(*    sets.                                                                *)
(***************************************************************************)
EXTENDS Integers, Sequences, FiniteSets, TLC

VARIABLES
    \* ---- the NatVsTech object (self) ----
    threshold_value,          \* self.threshold_value
    gbc_base,                 \* self.gbc_base (the params of the classifier)
    optimum_boosting_stages,  \* self.optimum_boosting_stages
    gbc_best_params,          \* self.gbc_best_params
    \* ---- filter_negative, called by a client ----
    fn_pc, fn_data, fn_result, fn_again,
    \* ---- find_min_boosting_stages / find_optimum_gbc_parameters ----
    st_pc, dev, test_score, test_best_iter, gbc_fitted,
    \* ---- apply_detection_threshold / apply_trained_classification ----
    at_pc,              \* where the client or the call's loop stands
    adt_result,         \* what the client's apply_detection_threshold returned
    at_args,            \* the arguments of the inference call
    test_data_names,    \* the run files still to process
    X_test_data_track,  \* the summary table, one record per run
    X_test_preserved,   \* the annotated table written for the last run
    \* ---- rfecv_feature_identify ----
    rf_pc,              \* where the call stands
    rf_args,            \* the arguments as the caller passed them
    gbc_init_params,    \* the caller's dict, which the call holds by reference
    gbc,                \* the classifier RFECV wraps
    run,                \* the loop's counter
    split,              \* the train and holdout rows of the current split
    stage_call,         \* the arguments of the split's find_min_boosting_stages
    grid_call,          \* the rows of the split's find_optimum_gbc_parameters
    nameListAll, optimumLengthAll, classScoreAll, classScoreAll2,
    classScoreAll3, featureImportancesAll, rfecvGridScoresAll,
    rf_return           \* what the call returned

objVars == <<threshold_value, gbc_base, optimum_boosting_stages, gbc_best_params>>
fnVars  == <<fn_pc, fn_data, fn_result, fn_again>>
stVars  == <<st_pc, dev, test_score, test_best_iter, gbc_fitted>>
atVars  == <<at_pc, adt_result, at_args, test_data_names, X_test_data_track,
             X_test_preserved>>
aggVars == <<nameListAll, optimumLengthAll, classScoreAll, classScoreAll2,
             classScoreAll3, featureImportancesAll, rfecvGridScoresAll>>
rfVars  == <<rf_pc, rf_args, gbc_init_params, gbc, run, split, stage_call,
             grid_call, aggVars, rf_return>>
vars    == <<objVars, fnVars, stVars, atVars, rfVars>>

----------------------------------------------------------------------------
\* Bounds of the model.
MaxRows       == 2    \* rows of a table handed to filter_negative
NCols         == 2    \* columns of such a table
MaxEstimators == 3    \* largest n_estimators a caller configures
MaxDev        == 2    \* deviance values are 0..MaxDev
MaxRunRows    == 2    \* rows of a run file
MaxSplits     == 2    \* largest n_splits a caller asks for

----------------------------------------------------------------------------
\* Values.
None    == <<>>
Some(v) == <<v>>
Get(o)  == o[1]

Missing == <<>>
Val(v)  == <<v>>
IsNa(c) == c = Missing

At(a, i) == a[i + 1]

\* A comparison with NaN is False.
GE(c, t) == ~IsNa(c) /\ c[1] >= t

----------------------------------------------------------------------------
\* The data conditioner.

\* The mutant: the mask is never applied.
MaskNonNegative_unmasked(data) == data

\* data >= 0, then data[mask]: a cell whose mask is False becomes NaN.
MaskNonNegative(data) ==
    [r \in DOMAIN data |->
        [c \in DOMAIN data[r] |-> IF GE(data[r][c], 0) THEN data[r][c] ELSE Missing]]

\* DataFrame.dropna(): drops every row holding a NaN, keeps the order.
dropna(data) ==
    SelectSeq(data, LAMBDA row : \A c \in DOMAIN row : ~IsNa(row[c]))

filter_negative(data) == dropna(MaskNonNegative(data))

\* The column of the default isotope_trigger, '140Ce'.
isotope_trigger == 1

\* data[data[isotope_trigger] >= threshold_value].dropna()
apply_detection_threshold(data, trigger, threshold) ==
    dropna(SelectSeq(data, LAMBDA row : GE(row[trigger], threshold)))

\* The default of apply_detection_threshold's threshold_value.
default_threshold_value == 0

----------------------------------------------------------------------------
\* The stage selector.

\* heldout_score: score = zeros(max_n_estimators), then score[i] is the loss of
\* the i-th prediction staged_decision_function yields, which is the ensemble
\* of i + 1 stages. devf[k] is the deviance of the ensemble of k stages.
heldout_score(devf, max_n_estimators) ==
    [p \in 1..max_n_estimators |-> devf[p]]

\* test_score -= test_score[0]
Normalize(score) == [p \in DOMAIN score |-> score[p] - At(score, 0)]

\* np.argmin scans the array and keeps the first index holding the least
\* value: a later element replaces the best only when strictly smaller.
RECURSIVE argmin_scan(_, _, _)
argmin_scan(a, i, best) ==
    IF i >= Len(a) THEN best
    ELSE argmin_scan(a, i + 1, IF At(a, i) < At(a, best) THEN i ELSE best)

\* The mutant's scan: a later element replaces the best when it is as small.
RECURSIVE argmin_scan_last(_, _, _)
argmin_scan_last(a, i, best) ==
    IF i >= Len(a) THEN best
    ELSE argmin_scan_last(a, i + 1, IF At(a, i) <= At(a, best) THEN i ELSE best)

np_argmin_last(a) == argmin_scan_last(a, 1, 0)

np_argmin(a) == argmin_scan(a, 1, 0)

\* np.arange(n)
np_arange(n) == [p \in 1..n |-> p - 1]

\* The result of find_min_boosting_stages for base params of n_estimators = n
\* on a classifier whose staged deviances are devf: the normalised scores and
\* test_best_iter = x_range[np.argmin(test_score)].
StageScores(devf, n) == Normalize(heldout_score(devf, n))
StageBest(devf, n)   == At(np_arange(n + 1), np_argmin(StageScores(devf, n)))

----------------------------------------------------------------------------
\* Parameter dicts: functions from keyword to value.
SetItem(d, k, v) == [x \in DOMAIN d \cup {k} |-> IF x = k THEN v ELSE d[x]]

\* Python truthiness of a number.
Truthy(x) == x # 0

\* GradientBoostingClassifier(**params): a keyword not given keeps the
\* library's default (n_estimators=100, max_depth=3).
GradientBoostingClassifier(params) ==
    [n_estimators |-> IF "n_estimators" \in DOMAIN params THEN params["n_estimators"] ELSE 100,
     max_depth    |-> IF "max_depth" \in DOMAIN params THEN params["max_depth"] ELSE 3]

\* The base params a caller hands over.
BaseParams == {[n_estimators |-> n, max_depth |-> 3] : n \in 1..MaxEstimators}

\* grid_searcher.best_params_: one combination of the grid, whose keys are the
\* grid's; the grid may or may not hold n_estimators.
GridNEstimators == {50, 200}
BestParams ==
    {[max_depth |-> d] : d \in {2, 4}}
    \cup {[max_depth |-> d, n_estimators |-> g] : d \in {2, 4}, g \in GridNEstimators}

\* The best params find_optimum_gbc_parameters stores: n_estimators is
\* overridden when self.optimum_boosting_stages is truthy.
OverrideStages(best, stages) ==
    IF Truthy(stages) THEN SetItem(best, "n_estimators", stages) ELSE best

----------------------------------------------------------------------------
\* A client calls filter_negative on a table, and again on the result.
Cells  == {Missing} \cup {Val(v) : v \in -1..1}
Rows   == [1..NCols -> Cells]
Tables == UNION {[1..n -> Rows] : n \in 0..MaxRows}

FilterNegative ==
    /\ fn_pc = "table"
    /\ fn_result' = filter_negative(fn_data)
    /\ fn_pc' = "filtered"
    /\ UNCHANGED <<fn_data, fn_again, objVars, stVars, atVars, rfVars>>

FilterNegativeAgain ==
    /\ fn_pc = "filtered"
    /\ fn_again' = filter_negative(fn_result)
    /\ fn_pc' = "refiltered"
    /\ UNCHANGED <<fn_data, fn_result, objVars, stVars, atVars, rfVars>>

----------------------------------------------------------------------------
\* A client calls find_min_boosting_stages, then find_optimum_gbc_parameters.
FindMinBoostingStages ==
    \E base \in BaseParams :
        /\ rf_pc \in {"idle", "ready"}
        /\ gbc_base' = Some(base)
        /\ test_score' = StageScores(dev, base.n_estimators)
        /\ test_best_iter' = Some(StageBest(dev, base.n_estimators))
        /\ optimum_boosting_stages' = Some(StageBest(dev, base.n_estimators))
        /\ st_pc' = "staged"
        /\ UNCHANGED <<dev, gbc_fitted, gbc_best_params, threshold_value, fnVars, atVars, rfVars>>

\* self.gbc_base and self.optimum_boosting_stages exist only after
\* find_min_boosting_stages; before it the call raises AttributeError.
FindOptimumGbcParameters ==
    \E best \in BestParams :
        /\ gbc_base # None
        /\ gbc_best_params' = Some(OverrideStages(best, Get(optimum_boosting_stages)))
        /\ gbc_fitted' = Some(GradientBoostingClassifier(
                                OverrideStages(best, Get(optimum_boosting_stages))))
        /\ st_pc' = "optimised"
        /\ UNCHANGED <<dev, test_score, test_best_iter, gbc_base,
                       optimum_boosting_stages, threshold_value, fnVars, atVars, rfVars>>

----------------------------------------------------------------------------
\* The inference applier.

\* 0.5 in tenths, and the probability of certainty.
Half  == 5
Scale == 2 * Half

\* len(np.where(column <= t)[0]) and list(...).count(v)
CountLE(column, t) == Cardinality({p \in DOMAIN column : column[p] <= t})
CountEq(list, v)   == Cardinality({p \in DOMAIN list : list[p] = v})

\* Column 1 of predict_proba from column 0.
Column1(proba0) == [p \in DOMAIN proba0 |-> Scale - proba0[p]]

\* gbc.predict: the class of the larger probability, the first (class 0,
\* technical) on a tie.
Predict(proba0) == [p \in DOMAIN proba0 |-> IF Column1(proba0)[p] > proba0[p] THEN 1 ELSE 0]

\* The "by proba" baselines: rows whose probability column is <= 0.5.
total_natural_by_proba(proba0)   == CountLE(proba0, Half)
total_technical_by_proba(proba0) == CountLE(Column1(proba0), Half)

\* The mutant: the rows at the tracked probability are not taken off.
total_nat_above_proba_thresh_strict(proba0, track) ==
    total_natural_by_proba(proba0) - CountLE(proba0, At(track, 0) - 1)

\* The two tracked counts of one run, from column 0 of predict_proba (proba0)
\* and column 1, for track_class_probabilities = track.
total_nat_above_proba_thresh(proba0, track) ==
    total_natural_by_proba(proba0) - CountLE(proba0, At(track, 0))

total_tech_above_proba_thresh(proba0, track) ==
    total_technical_by_proba(proba0) - CountLE(Column1(proba0), At(track, 1))

\* The summary record of one run.
SummaryRecord(run_name, proba0, track) ==
    LET predicted == Predict(proba0)
        nat == CountEq(predicted, 1)
        tec == CountEq(predicted, 0)
    IN  [run_name                |-> run_name,
         total_particle_count    |-> nat + tec,
         nat_particle_count      |-> nat,
         tec_particle_count      |-> tec,
         nat_above_proba_thresh  |-> total_nat_above_proba_thresh(proba0, track),
         tech_above_proba_thresh |-> total_tech_above_proba_thresh(proba0, track)]

\* The conditioning of a run's table by the flags of the call; the threshold
\* is apply_detection_threshold's default, none being passed.
ConditionRun(data, args) ==
    LET filtered == IF args.filter_neg THEN filter_negative(data) ELSE data
    IN  IF args.apply_threshold
        THEN apply_detection_threshold(filtered, isotope_trigger, default_threshold_value)
        ELSE filtered

HasNa(data) == \E r \in DOMAIN data : \E c \in DOMAIN data[r] : IsNa(data[r][c])

\* Inputs: run files of one trigger column, thresholds a client configures,
\* the probabilities the classifier gives, the probabilities tracked, and a
\* directory of no run file or of one.
TriggerCells    == {Missing, Val(-1), Val(1), Val(3)}
RunTables       == UNION {[1..n -> [1..1 -> TriggerCells]] : n \in 0..MaxRunRows}
ThresholdValues == {0, 2}
ProbaGrid       == {1, 3, 5, 7, 9}
TrackValues     == {1, 5, 9}
Directories     == {<<>>, <<"a.csv">>}
AdtTables       == {<<<<Val(1)>>>>, <<<<Val(1)>>, <<Val(3)>>>>}

\* A client conditions a table: the threshold is recorded on the object.
ApplyDetectionThreshold ==
    \E data \in AdtTables, t \in ThresholdValues :
        /\ at_pc = "ready"
        /\ adt_result' = apply_detection_threshold(data, isotope_trigger, t)
        /\ threshold_value' = Some(t)
        /\ UNCHANGED <<at_pc, at_args, test_data_names, X_test_data_track,
                       X_test_preserved, gbc_base, optimum_boosting_stages,
                       gbc_best_params, fnVars, stVars, rfVars>>

\* apply_trained_classification up to its loop: the directory is listed and
\* the classifier fitted. track_particle_counts keeps its default, True, and
\* critical_isotopes its default, False.
ApplyTrainedClassification ==
    \E names \in Directories, nat \in TrackValues, tech \in TrackValues,
       fneg \in BOOLEAN, thr \in BOOLEAN :
        /\ at_pc = "ready"
        /\ at_args' = [track_class_probabilities |-> <<nat, tech>>,
                       filter_neg |-> fneg, apply_threshold |-> thr]
        /\ test_data_names' = names
        /\ X_test_data_track' = <<>>
        /\ at_pc' = "loop"
        /\ UNCHANGED <<adt_result, X_test_preserved, objVars, fnVars, stVars, rfVars>>

\* One pass of the loop over the run files: the run is read, conditioned,
\* classified, counted and written out annotated.
ClassifyRun ==
    /\ at_pc = "loop"
    /\ test_data_names # <<>>
    /\ \E data \in RunTables :
        LET test_data == ConditionRun(data, at_args) IN
        \E proba0 \in [DOMAIN test_data -> ProbaGrid] :
            /\ ~HasNa(test_data)
            /\ threshold_value' =
                  IF at_args.apply_threshold THEN Some(default_threshold_value)
                  ELSE threshold_value
            /\ X_test_data_track' =
                  Append(X_test_data_track,
                         SummaryRecord(Head(test_data_names), proba0,
                                       at_args.track_class_probabilities))
            /\ X_test_preserved' =
                  [r \in DOMAIN test_data |->
                      [cells |-> test_data[r], natural_class_proba |-> Scale - proba0[r]]]
            /\ test_data_names' = Tail(test_data_names)
            /\ UNCHANGED <<at_pc, adt_result, at_args, gbc_base,
                           optimum_boosting_stages, gbc_best_params, fnVars, stVars, rfVars>>

\* A run that still holds a missing value when neither filter is on: predict
\* rejects it and the call ends with the exception.
ClassifyRunRaises ==
    /\ at_pc = "loop"
    /\ test_data_names # <<>>
    /\ \E data \in RunTables : HasNa(ConditionRun(data, at_args))
    /\ threshold_value' =
          IF at_args.apply_threshold THEN Some(default_threshold_value)
          ELSE threshold_value
    /\ at_pc' = "raised"
    /\ UNCHANGED <<adt_result, at_args, test_data_names, X_test_data_track,
                   X_test_preserved, gbc_base, optimum_boosting_stages,
                   gbc_best_params, fnVars, stVars, rfVars>>

\* The loop is over: the summary is written and returned.
ClassificationReturns ==
    /\ at_pc = "loop"
    /\ test_data_names = <<>>
    /\ at_pc' = "returned"
    /\ UNCHANGED <<adt_result, at_args, test_data_names, X_test_data_track,
                   X_test_preserved, objVars, fnVars, stVars, rfVars>>

----------------------------------------------------------------------------
\* The feature eliminator.

\* The training table: four rows, two of each class, two feature columns.
Samples       == {1, 2, 3, 4}
y_all         == <<0, 0, 1, 1>>
feature_names == <<"140Ce", "139La">>

\* StratifiedShuffleSplit: a holdout of one row of each class, the rest train.
Splits ==
    {[train |-> Samples \ {a, b}, holdout |-> {a, b}] :
        a \in {r \in Samples : y_all[r] = 0}, b \in {r \in Samples : y_all[r] = 1}}

\* What RFECV yields on a train partition: the retained mask over the
\* features, their number, and the score of each number of features.
RfecvResults ==
    {[support_ |-> <<TRUE, FALSE>>, n_features_ |-> 1, grid_scores_ |-> <<9, 8>>],
     [support_ |-> <<FALSE, TRUE>>, n_features_ |-> 1, grid_scores_ |-> <<9, 8>>],
     [support_ |-> <<TRUE, TRUE>>,  n_features_ |-> 2, grid_scores_ |-> <<8, 9>>]}

\* The holdout metrics of a split (tenths): both rows right, or one wrong.
HoldoutScores ==
    {[f1 |-> 10, r2 |-> 10, mae |-> 0], [f1 |-> 3, r2 |-> -10, mae |-> 5]}

\* gbc.feature_importances_ after the fit on the trimmed train set: one per
\* retained feature, summing to Scale.
Importances(n) == IF n = 1 THEN {<<Scale>>} ELSE {<<Half, Half>>, <<7, 3>>}

\* The loop that builds nameList from the mask.
RECURSIVE nameList(_, _, _)
nameList(featureSetIDs, names, i) ==
    IF i > Len(featureSetIDs) THEN <<>>
    ELSE (IF featureSetIDs[i] THEN <<names[i]>> ELSE <<>>)
         \o nameList(featureSetIDs, names, i + 1)

\* A client calls rfecv_feature_identify: the statements before the loop.
RfecvFeatureIdentify ==
    \E n \in 0..MaxSplits, grid \in BOOLEAN, stages \in BOOLEAN, params \in BaseParams :
        /\ rf_pc = "ready"
        /\ rf_args' = [n_splits |-> n, cv_grid_search |-> grid,
                       find_min_boosting_stages |-> stages, gbc_init_params |-> params]
        /\ gbc_init_params' = params
        /\ gbc' = Some(GradientBoostingClassifier(params))
        /\ run' = 0
        /\ nameListAll' = <<>>
        /\ optimumLengthAll' = <<>>
        /\ classScoreAll' = <<>>
        /\ classScoreAll2' = <<>>
        /\ classScoreAll3' = <<>>
        /\ featureImportancesAll' = <<>>
        /\ rfecvGridScoresAll' = <<>>
        /\ rf_pc' = "loop"
        /\ UNCHANGED <<split, stage_call, grid_call, rf_return, objVars, fnVars,
                       stVars, atVars>>

\* One pass of the loop with cv_grid_search off: the stage search when asked
\* for, RFECV on the train partition, the refit, the holdout metrics, and the
\* appends to the aggregates.
RfecvSplit ==
    /\ rf_pc = "loop"
    /\ run < rf_args.n_splits
    /\ ~rf_args.cv_grid_search
    /\ rf_args.find_min_boosting_stages => gbc_init_params.n_estimators >= 1
    /\ \E sp \in Splits, rfecv \in RfecvResults, scores \in HoldoutScores :
       \E importances \in Importances(rfecv.n_features_) :
        /\ split' = Some(sp)
        /\ run' = run + 1
        /\ IF rf_args.find_min_boosting_stages
           THEN LET best == StageBest(dev, gbc_init_params.n_estimators) IN
                /\ stage_call' = Some([rows |-> Samples, gbc_base_params |-> gbc_init_params])
                /\ gbc_base' = Some(gbc_init_params)
                /\ optimum_boosting_stages' = Some(best)
                /\ gbc_init_params' = SetItem(gbc_init_params, "n_estimators", best)
           ELSE UNCHANGED <<stage_call, gbc_base, optimum_boosting_stages, gbc_init_params>>
        /\ rfecvGridScoresAll' = Append(rfecvGridScoresAll, rfecv.grid_scores_)
        /\ optimumLengthAll' = Append(optimumLengthAll, rfecv.n_features_)
        /\ nameListAll' = nameListAll \o nameList(rfecv.support_, feature_names, 1)
        /\ classScoreAll' = Append(classScoreAll, scores.f1)
        /\ classScoreAll2' = Append(classScoreAll2, scores.r2)
        /\ classScoreAll3' = Append(classScoreAll3, scores.mae)
        /\ featureImportancesAll' = Append(featureImportancesAll, importances)
        /\ UNCHANGED <<rf_pc, rf_args, gbc, grid_call, rf_return, threshold_value,
                       gbc_best_params, fnVars, stVars, atVars>>

\* A pass whose stage search is handed n_estimators = 0: self.gbc_base is
\* set, then the fit of an ensemble of no stage raises.
RfecvStageSearchRaises ==
    /\ rf_pc = "loop"
    /\ run < rf_args.n_splits
    /\ rf_args.find_min_boosting_stages
    /\ gbc_init_params.n_estimators < 1
    /\ \E sp \in Splits :
        /\ split' = Some(sp)
        /\ run' = run + 1
        /\ stage_call' = Some([rows |-> Samples, gbc_base_params |-> gbc_init_params])
        /\ gbc_base' = Some(gbc_init_params)
        /\ rf_pc' = "raised"
        /\ UNCHANGED <<rf_args, gbc_init_params, gbc, grid_call, aggVars, rf_return,
                       threshold_value, optimum_boosting_stages, gbc_best_params,
                       fnVars, stVars, atVars>>

\* A pass with cv_grid_search on. find_optimum_gbc_parameters returns a
\* classifier, not a dict: with the stage search on, the item assignment into
\* it raises TypeError, and without, its unpacking with ** does. On an object
\* whose find_min_boosting_stages never ran, self.gbc_base is unset and
\* find_optimum_gbc_parameters raises AttributeError before the grid search.
RfecvGridSearchRaises ==
    /\ rf_pc = "loop"
    /\ run < rf_args.n_splits
    /\ rf_args.cv_grid_search
    /\ rf_args.find_min_boosting_stages => gbc_init_params.n_estimators >= 1
    /\ \E sp \in Splits, best_params \in BestParams :
        /\ split' = Some(sp)
        /\ run' = run + 1
        /\ IF rf_args.find_min_boosting_stages
           THEN LET best == StageBest(dev, gbc_init_params.n_estimators) IN
                /\ stage_call' = Some([rows |-> Samples, gbc_base_params |-> gbc_init_params])
                /\ gbc_base' = Some(gbc_init_params)
                /\ optimum_boosting_stages' = Some(best)
                /\ gbc_init_params' = SetItem(gbc_init_params, "n_estimators", best)
                /\ grid_call' = Some(Samples)
                /\ gbc_best_params' = Some(OverrideStages(best_params, best))
           ELSE IF gbc_base # None
           THEN /\ grid_call' = Some(Samples)
                /\ gbc_best_params' =
                      Some(OverrideStages(best_params, Get(optimum_boosting_stages)))
                /\ UNCHANGED <<stage_call, gbc_base, optimum_boosting_stages,
                               gbc_init_params>>
           ELSE UNCHANGED <<stage_call, gbc_base, optimum_boosting_stages,
                            gbc_init_params, grid_call, gbc_best_params>>
        /\ rf_pc' = "raised"
        /\ UNCHANGED <<rf_args, gbc, aggVars, rf_return, threshold_value,
                       fnVars, stVars, atVars>>

\* The splits are exhausted: the function ends without a return statement, so
\* the caller receives Python's None.
RfecvReturns ==
    /\ rf_pc = "loop"
    /\ run = rf_args.n_splits
    /\ rf_return' = None
    /\ rf_pc' = "returned"
    /\ UNCHANGED <<rf_args, gbc_init_params, gbc, run, split, stage_call, grid_call,
                   aggVars, objVars, fnVars, stVars, atVars>>

----------------------------------------------------------------------------
\* Initial states: a fresh object, and the inputs of each scenario.
InitObj ==
    /\ threshold_value = None
    /\ gbc_base = None
    /\ optimum_boosting_stages = None
    /\ gbc_best_params = None

IdleFn == fn_pc = "idle" /\ fn_data = <<>> /\ fn_result = <<>> /\ fn_again = <<>>
IdleSt ==
    /\ st_pc = "idle"
    /\ dev = <<>>
    /\ test_score = <<>>
    /\ test_best_iter = None
    /\ gbc_fitted = None

IdleAt ==
    /\ at_pc = "idle"
    /\ adt_result = <<>>
    /\ at_args = <<>>
    /\ test_data_names = <<>>
    /\ X_test_data_track = <<>>
    /\ X_test_preserved = <<>>

IdleRf ==
    /\ rf_pc = "idle"
    /\ rf_args = <<>>
    /\ gbc_init_params = <<>>
    /\ gbc = None
    /\ run = 0
    /\ split = None
    /\ stage_call = None
    /\ grid_call = None
    /\ nameListAll = <<>>
    /\ optimumLengthAll = <<>>
    /\ classScoreAll = <<>>
    /\ classScoreAll2 = <<>>
    /\ classScoreAll3 = <<>>
    /\ featureImportancesAll = <<>>
    /\ rfecvGridScoresAll = <<>>
    /\ rf_return = <<"pending">>

InitFilter ==
    /\ InitObj /\ IdleSt /\ IdleAt /\ IdleRf
    /\ fn_pc = "table"
    /\ fn_data \in Tables
    /\ fn_result = <<>>
    /\ fn_again = <<>>

\* dev[k], k in 0..MaxEstimators: the deviance of the fitted ensemble cut to
\* its first k stages (k = 0: the initial estimator alone).
InitStage ==
    /\ InitObj /\ IdleFn /\ IdleAt /\ IdleRf
    /\ st_pc = "new"
    /\ dev \in [0..MaxEstimators -> 0..MaxDev]
    /\ test_score = <<>>
    /\ test_best_iter = None
    /\ gbc_fitted = None

InitInfer ==
    /\ InitObj /\ IdleFn /\ IdleSt /\ IdleRf
    /\ at_pc = "ready"
    /\ adt_result = <<>>
    /\ at_args = <<>>
    /\ test_data_names = <<>>
    /\ X_test_data_track = <<>>
    /\ X_test_preserved = <<>>

NextInfer ==
    \/ ApplyDetectionThreshold
    \/ ApplyTrainedClassification
    \/ ClassifyRun
    \/ ClassifyRunRaises
    \/ ClassificationReturns

SpecInfer == InitInfer /\ [][NextInfer]_vars

\* The classifier's staged deviances on the training table are an input.
InitRfecv ==
    /\ InitObj /\ IdleFn /\ IdleAt
    /\ st_pc = "idle"
    /\ dev \in [0..MaxEstimators -> 0..MaxDev]
    /\ test_score = <<>>
    /\ test_best_iter = None
    /\ gbc_fitted = None
    /\ rf_pc = "ready"
    /\ rf_args = <<>>
    /\ gbc_init_params = <<>>
    /\ gbc = None
    /\ run = 0
    /\ split = None
    /\ stage_call = None
    /\ grid_call = None
    /\ nameListAll = <<>>
    /\ optimumLengthAll = <<>>
    /\ classScoreAll = <<>>
    /\ classScoreAll2 = <<>>
    /\ classScoreAll3 = <<>>
    /\ featureImportancesAll = <<>>
    /\ rfecvGridScoresAll = <<>>
    /\ rf_return = <<"pending">>

NextRfecv ==
    \/ FindMinBoostingStages
    \/ RfecvFeatureIdentify
    \/ RfecvSplit
    \/ RfecvStageSearchRaises
    \/ RfecvGridSearchRaises
    \/ RfecvReturns

SpecRfecv == InitRfecv /\ [][NextRfecv]_vars

NextFilter == FilterNegative \/ FilterNegativeAgain
NextStage  == FindMinBoostingStages \/ FindOptimumGbcParameters

SpecFilter == InitFilter /\ [][NextFilter]_vars
SpecStage  == InitStage /\ [][NextStage]_vars

----------------------------------------------------------------------------
\* Claims about filter_negative.

RECURSIVE IsSubSeq(_, _)
IsSubSeq(s, t) ==
    IF s = <<>> THEN TRUE
    ELSE IF t = <<>> THEN FALSE
    ELSE IF Head(s) = Head(t) THEN IsSubSeq(Tail(s), Tail(t))
    ELSE IsSubSeq(s, Tail(t))

NoNegativeNoMissing(data) ==
    \A r \in DOMAIN data : \A c \in DOMAIN data[r] :
        ~IsNa(data[r][c]) /\ data[r][c][1] >= 0

\* C5: filter_negative(T) holds only rows of T, in their order in T, none with
\* a negative or missing cell, and filtering the result again changes nothing.
C5_FilterNegative ==
    /\ fn_pc \in {"filtered", "refiltered"} =>
          IsSubSeq(fn_result, fn_data) /\ NoNegativeNoMissing(fn_result)
    /\ fn_pc = "refiltered" => fn_again = fn_result

\* A table with a negative cell, a missing cell and a clean row was filtered
\* twice and the clean row survived.
C5_Witness ==
    /\ fn_pc = "refiltered"
    /\ Len(fn_result) = 1
    /\ \E r \in DOMAIN fn_data : \E c \in DOMAIN fn_data[r] : IsNa(fn_data[r][c])
    /\ \E r \in DOMAIN fn_data : \E c \in DOMAIN fn_data[r] :
          ~IsNa(fn_data[r][c]) /\ fn_data[r][c][1] < 0

----------------------------------------------------------------------------
\* Claims about the stage selector.

\* C4: the normalised scores start at 0, and test_best_iter is the lowest
\* index at which they are least, within 0..n_estimators.
C4_StageSelection ==
    st_pc # "new" /\ st_pc # "idle" =>
        LET n    == Get(gbc_base).n_estimators
            best == Get(test_best_iter)
        IN  /\ At(test_score, 0) = 0
            /\ best \in 0..n
            /\ best < Len(test_score)
            /\ \A j \in 0..(Len(test_score) - 1) : At(test_score, best) <= At(test_score, j)
            /\ \A j \in 0..(best - 1) : At(test_score, j) > At(test_score, best)

\* The minimum is attained twice, the first time after index 0.
C4_Witness ==
    /\ st_pc = "staged"
    /\ Get(test_best_iter) = 1
    /\ Len(test_score) = 3
    /\ At(test_score, 2) = At(test_score, 1)

\* C10 as claimed: one score per stage count 0..n_estimators, score i the
\* deviance of the ensemble cut to i stages, so that n_estimators =
\* test_best_iter is a usable stage count of least deviance.
C10_Claimed ==
    st_pc # "new" /\ st_pc # "idle" =>
        LET n    == Get(gbc_base).n_estimators
            best == Get(test_best_iter)
        IN  /\ Len(test_score) = n + 1
            /\ \A i \in 0..n : At(test_score, i) = dev[i] - dev[0]
            /\ best >= 1
            /\ \A k \in 1..n : dev[best] <= dev[k]

\* C3 as claimed: the returned classifier's n_estimators is the stage count
\* find_min_boosting_stages computed, whatever that count is.
C3_Claimed ==
    st_pc = "optimised" =>
        Get(gbc_fitted).n_estimators = Get(optimum_boosting_stages)

----------------------------------------------------------------------------
\* Claims about the inference applier.

\* Column 0 of predict_proba for the run last written out.
PreservedProba0 ==
    [r \in DOMAIN X_test_preserved |-> Scale - X_test_preserved[r].natural_class_proba]

LastRecord == X_test_data_track[Len(X_test_data_track)]

\* C1 as claimed: both tracked counts of a run are at least 0 and at most
\* their "by proba" baseline, whatever probabilities are tracked.
C1_Claimed ==
    X_test_data_track # <<>> =>
        /\ LastRecord.nat_above_proba_thresh >= 0
        /\ LastRecord.nat_above_proba_thresh <= total_natural_by_proba(PreservedProba0)
        /\ LastRecord.tech_above_proba_thresh >= 0
        /\ LastRecord.tech_above_proba_thresh <= total_technical_by_proba(PreservedProba0)

\* C6 as claimed: nat_above_proba_thresh counts the rows classified natural
\* whose natural probability exceeds p_nat, tech_above_proba_thresh the rows
\* classified technical whose technical probability exceeds p_tech.
C6_Claimed ==
    X_test_data_track # <<>> =>
        LET p0    == PreservedProba0
            p_nat == At(at_args.track_class_probabilities, 0)
            p_tec == At(at_args.track_class_probabilities, 1)
        IN  /\ LastRecord.nat_above_proba_thresh =
                  Cardinality({r \in DOMAIN p0 : Scale - p0[r] > p0[r] /\ Scale - p0[r] > p_nat})
            /\ LastRecord.tech_above_proba_thresh =
                  Cardinality({r \in DOMAIN p0 : ~(Scale - p0[r] > p0[r]) /\ p0[r] > p_tec})

\* The number of values of a in (lo, hi], counted negative when hi < lo.
Between(a, lo, hi) ==
    IF lo <= hi THEN Cardinality({r \in DOMAIN a : lo < a[r] /\ a[r] <= hi})
    ELSE 0 - Cardinality({r \in DOMAIN a : hi < a[r] /\ a[r] <= lo})

\* C6 amended: nat_above_proba_thresh is the number of rows whose technical
\* probability (column 0) lies in (p_nat, 0.5], tech_above_proba_thresh the
\* number whose natural probability (column 1) lies in (p_tech, 0.5]; past 0.5
\* each is minus the number of rows in (0.5, p].
C6_Amended ==
    X_test_data_track # <<>> =>
        LET p0    == PreservedProba0
            p1    == [r \in DOMAIN p0 |-> Scale - p0[r]]
            p_nat == At(at_args.track_class_probabilities, 0)
            p_tec == At(at_args.track_class_probabilities, 1)
        IN  /\ LastRecord.nat_above_proba_thresh = Between(p0, p_nat, Half)
            /\ LastRecord.tech_above_proba_thresh = Between(p1, p_tec, Half)

\* A run of two rows, one counted on each side, with both tracked
\* probabilities under 0.5.
C6_Witness ==
    /\ at_pc = "returned"
    /\ X_test_data_track # <<>>
    /\ LastRecord.total_particle_count = 2
    /\ LastRecord.nat_above_proba_thresh = 1
    /\ LastRecord.tech_above_proba_thresh = 1
    /\ At(at_args.track_class_probabilities, 0) < Half
    /\ At(at_args.track_class_probabilities, 1) < Half

\* C9 as claimed: a run classified with apply_threshold set leaves the
\* threshold a conditioning step recorded as it was, and every row written out
\* for the run has its trigger at or above that threshold.
C9_Claimed ==
    [][(/\ at_pc = "loop"
        /\ at_args.apply_threshold
        /\ threshold_value # None
        /\ Len(X_test_data_track') = Len(X_test_data_track) + 1)
       => (/\ threshold_value' = threshold_value
           /\ \A r \in DOMAIN X_test_preserved' :
                 GE(X_test_preserved'[r].cells[isotope_trigger], Get(threshold_value)))]_vars

----------------------------------------------------------------------------
\* Claims about the feature eliminator.

\* C2 as claimed: once every split is processed, each aggregate holds one
\* entry per split, and the aggregates are what the call returns.
C2_Claimed ==
    rf_pc = "returned" =>
        /\ Len(nameListAll) = rf_args.n_splits
        /\ Len(optimumLengthAll) = rf_args.n_splits
        /\ Len(classScoreAll) = rf_args.n_splits
        /\ Len(classScoreAll2) = rf_args.n_splits
        /\ Len(classScoreAll3) = rf_args.n_splits
        /\ Len(featureImportancesAll) = rf_args.n_splits
        /\ Len(rfecvGridScoresAll) = rf_args.n_splits
        /\ rf_return = <<nameListAll, optimumLengthAll, classScoreAll, classScoreAll2,
                         classScoreAll3, featureImportancesAll, rfecvGridScoresAll>>

\* C7 as claimed: the stage search of every split is handed the parameters
\* the caller passed, the classifier RFECV wraps is configured from them, and
\* the caller's dict stays as passed.
C7_Claimed ==
    rf_pc \in {"loop", "returned", "raised"} =>
        /\ gbc_init_params = rf_args.gbc_init_params
        /\ Get(gbc).n_estimators = rf_args.gbc_init_params.n_estimators
        /\ stage_call # None =>
              Get(stage_call).gbc_base_params = rf_args.gbc_init_params

\* C8 as claimed: the stage search and the grid search of a split read rows
\* of the split's train partition only.
C8_Claimed ==
    /\ stage_call # None => Get(stage_call).rows \subseteq Get(split).train
    /\ grid_call # None => Get(grid_call) \subseteq Get(split).train

====
